---- MODULE Spec2Model ----
(***************************************************************************)
(* Model of python/01_get_osm_network.py: the extraction of a routable     *)
(* directed road graph from tagged ways.                                   *)
(*                                                                         *)
(*   NodeReader   selects the raw points that become graph vertices.       *)
(*   EdgeReader   splits every valid way into directed edges and resolves  *)
(*                their attributes from the way's tags.                    *)
(*   post_process keeps the largest strongly connected component, fills    *)
(*                the missing speeds, removes parallel edges and renumbers *)
(*                the surviving edges.                                     *)
(*                                                                         *)
(* Numbers: speeds are km/h, lengths are multiples of one unit of          *)
(* distance.  Raw point p lies at position Pos(p) on a line, so that the   *)
(* distance of two points is the absolute difference of their positions.   *)
(* A travel time is a ratio length / speed; ratios are compared exactly,   *)
(* by cross multiplication.                                                *)
(***************************************************************************)
EXTENDS Integers, Sequences, FiniteSets, TLC

(***************************************************************************)
(* Bounds of the model.                                                    *)
(***************************************************************************)
\* Raw points (OSM node refs) are 1..NumPoints.
NumPoints == 3
\* Number of ways of an extract.
MaxWays == 2
\* Number of node references of a way, in an extract of several ways.
MaxWayLen == 3
\* Number of node references of the way, in an extract of a single way.
MaxLongWayLen == 5

Points == 1..NumPoints

(***************************************************************************)
(* The tables of the script.                                               *)
(***************************************************************************)
VALID_HIGHWAYS ==
    {"motorway", "trunk", "primary", "secondary", "motorway_link",
     "trunk_link", "primary_link", "secondary_link", "tertiary",
     "tertiary_link", "living_street", "unclassified", "residential"}

MAIN_HIGHWAYS ==
    {"motorway", "trunk", "primary", "secondary", "motorway_link",
     "trunk_link", "primary_link", "secondary_link", "tertiary",
     "tertiary_link"}

OD_FORBIDDEN == {"motorway", "trunk", "motorway_link", "trunk_link"}

ROADTYPE_TO_ID ==
    [motorway |-> 1, trunk |-> 2, primary |-> 3, secondary |-> 4,
     tertiary |-> 5, motorway_link |-> 6, trunk_link |-> 7,
     primary_link |-> 8, secondary_link |-> 9, tertiary_link |-> 10,
     living_street |-> 11, unclassified |-> 12, residential |-> 13,
     road |-> 14, service |-> 15]

DEFAULT_LANES ==
    [motorway |-> 2, trunk |-> 2, primary |-> 1, secondary |-> 1,
     tertiary |-> 1, unclassified |-> 1, residential |-> 1,
     motorway_link |-> 1, trunk_link |-> 1, primary_link |-> 1,
     secondary_link |-> 1, tertiary_link |-> 1, living_street |-> 1,
     road |-> 1, service |-> 1]

DEFAULT_SPEED_RURAL ==
    [motorway |-> 130, trunk |-> 110, primary |-> 80, secondary |-> 80,
     tertiary |-> 80, unclassified |-> 20, residential |-> 30,
     motorway_link |-> 90, trunk_link |-> 70, primary_link |-> 50,
     secondary_link |-> 50, tertiary_link |-> 50, living_street |-> 20,
     road |-> 20, service |-> 20]

DEFAULT_SPEED_URBAN ==
    [motorway |-> 130, trunk |-> 110, primary |-> 50, secondary |-> 50,
     tertiary |-> 50, unclassified |-> 20, residential |-> 30,
     motorway_link |-> 90, trunk_link |-> 70, primary_link |-> 50,
     secondary_link |-> 50, tertiary_link |-> 50, living_street |-> 20,
     road |-> 20, service |-> 20]

CAPACITY ==
    [motorway |-> 2000, trunk |-> 2000, primary |-> 1500, secondary |-> 800,
     motorway_link |-> 1500, trunk_link |-> 1500, primary_link |-> 1500,
     secondary_link |-> 800, tertiary |-> 600, tertiary_link |-> 600,
     living_street |-> 300, unclassified |-> 600, residential |-> 600,
     road |-> 300, service |-> 300]

URBAN_LANDUSE ==
    {"commercial", "construction", "education", "industrial", "residential",
     "retail", "village_green", "recreation_ground", "military", "garages",
     "religious"}

(***************************************************************************)
(* Tags.  A tag mapping gives every key of TagKeys a string; the string    *)
(* Absent stands for a key the way does not carry.                         *)
(***************************************************************************)
Absent == "<absent>"

TagKeys ==
    {"highway", "access", "oneway", "junction", "maxspeed",
     "maxspeed:forward", "maxspeed:backward", "lanes", "lanes:forward",
     "lanes:backward", "landuse"}

\* tags.get(key, default)
TagGet(tags, key, default) ==
    IF tags[key] = Absent THEN default ELSE tags[key]

\* An optional number: None, or a number.
None == [some |-> FALSE, val |-> 0]
Some(v) == [some |-> TRUE, val |-> v]

\* The outcome of float(s) and int(s): a number, or a ValueError.
Parsed(v) == [ok |-> TRUE, val |-> v]
ValueError == [ok |-> FALSE, val |-> 0]

\* float(s), for the strings of the model: a ValueError for anything that is
\* not the decimal writing of a number.
ParseFloat(s) ==
    CASE s = "0"   -> Parsed(0)
      [] s = "20"  -> Parsed(20)
      [] s = "30"  -> Parsed(30)
      [] s = "50"  -> Parsed(50)
      [] s = "70"  -> Parsed(70)
      [] s = "-10" -> Parsed(-10)
      [] OTHER     -> ValueError

\* int(s), for the strings of the model.
ParseInt(s) ==
    CASE s = "0"   -> Parsed(0)
      [] s = "1"   -> Parsed(1)
      [] s = "2"   -> Parsed(2)
      [] s = "3"   -> Parsed(3)
      [] s = "4"   -> Parsed(4)
      [] s = "5"   -> Parsed(5)
      [] s = "-1"  -> Parsed(-1)
      [] s = "-2"  -> Parsed(-2)
      [] s = "20"  -> Parsed(20)
      [] s = "30"  -> Parsed(30)
      [] s = "50"  -> Parsed(50)
      [] s = "70"  -> Parsed(70)
      [] s = "-10" -> Parsed(-10)
      [] OTHER     -> ValueError

Max(a, b) == IF a >= b THEN a ELSE b

(***************************************************************************)
(* The state.                                                              *)
(***************************************************************************)
VARIABLES
    osm_file,      \* whether the extract OSM_FILE exists
    ways,          \* the way records of the extract, in file order
    located,       \* the raw points whose location is valid
    areas,         \* the area records of the extract
    pc,            \* position of the main script
    pos,           \* number of ways the running scan has handled
    all_nodes,     \* NodeReader.all_nodes
    nodes,         \* NodeReader.nodes: raw point -> vertex id
    node_counter,  \* NodeReader.counter
    edges,         \* EdgeReader.edges
    edge_counter,  \* EdgeReader.counter
    areas_wkb,     \* UrbanAreasReader.areas_wkb
    urban_area,    \* the set of raw points inside the urban region
    pp,            \* the tables post_process goes through
    edges_df       \* EdgeReader.edges_df, the final edge table

vars ==
    <<osm_file, ways, located, areas, pc, pos, all_nodes, nodes, node_counter,
      edges, edge_counter, areas_wkb, urban_area, pp, edges_df>>

(***************************************************************************)
(* valid_way                                                               *)
(***************************************************************************)
valid_way(way) ==
    LET has_access ==
            way.tags["access"] = Absent \/ way.tags["access"] = "yes"
    IN  /\ has_access
        /\ Len(way.nodes) > 1
        /\ way.tags["highway"] \in VALID_HIGHWAYS

(***************************************************************************)
(* NodeReader                                                              *)
(***************************************************************************)
\* Mutant: no test of node.location.valid().
add_node_NoValidTest(nr, node) ==
    IF node \in DOMAIN nr.nodes
    THEN nr
    ELSE [nr EXCEPT !.nodes = @ @@ (node :> nr.counter),
                    !.counter = @ + 1]

\* Mutant: no test of a node that was already added.
add_node_Again(nr, node) ==
    IF node \in located
    THEN [nr EXCEPT !.nodes = (node :> nr.counter) @@ @,
                    !.counter = @ + 1]
    ELSE nr

\* A NodeReader: [all_nodes, nodes, counter].
add_node(nr, node) ==
    IF node \in DOMAIN nr.nodes
    THEN nr
    ELSE IF node \in located
         THEN [nr EXCEPT !.nodes = @ @@ (node :> nr.counter),
                         !.counter = @ + 1]
         ELSE nr

\* The loop over the interior nodes, from the i-th node reference on.
RECURSIVE InteriorLoop(_, _, _)
InteriorLoop(nr, wnodes, i) ==
    IF i > Len(wnodes) - 1
    THEN nr
    ELSE LET node == wnodes[i]
             nr1  == IF node \in nr.all_nodes THEN add_node(nr, node) ELSE nr
             nr2  == [nr1 EXCEPT !.all_nodes = @ \cup {node}]
         IN  InteriorLoop(nr2, wnodes, i + 1)

handle_way(nr, way) ==
    LET first == way.nodes[1]
        last  == way.nodes[Len(way.nodes)]
        nr1   == add_node(nr, first)
        nr2   == add_node(nr1, last)
        nr3   == [nr2 EXCEPT !.all_nodes = @ \cup {first, last}]
    IN  InteriorLoop(nr3, way.nodes, 2)

\* NodeReader.way
NodeReaderWay(nr, way) ==
    IF ~valid_way(way) THEN nr ELSE handle_way(nr, way)

(***************************************************************************)
(* EdgeReader: the attributes of a way                                     *)
(***************************************************************************)
IsOneway(tags) ==
    \/ TagGet(tags, "oneway", "no") = "yes"
    \/ TagGet(tags, "junction", "") = "roundabout"

\* Mutant: the codes FR:urban and FR:rural are exchanged.
UndirectedSpeed_Exchanged(tags) ==
    LET maxspeed == TagGet(tags, "maxspeed", "")
        parsed   == ParseFloat(maxspeed)
    IN  CASE maxspeed = "FR:walk"  -> Some(20)
          [] maxspeed = "FR:urban" -> Some(80)
          [] maxspeed = "FR:rural" -> Some(50)
          [] OTHER -> IF parsed.ok THEN Some(parsed.val) ELSE None

\* The speed of the tag maxspeed: a code of the country, or a number.
UndirectedSpeed(tags) ==
    LET maxspeed == TagGet(tags, "maxspeed", "")
        parsed   == ParseFloat(maxspeed)
    IN  CASE maxspeed = "FR:walk"  -> Some(20)
          [] maxspeed = "FR:urban" -> Some(50)
          [] maxspeed = "FR:rural" -> Some(80)
          [] OTHER -> IF parsed.ok THEN Some(parsed.val) ELSE None

\* The maximum speed of the two directions: [speed, back_speed].
ResolveSpeed(tags, oneway) ==
    LET speed0   == UndirectedSpeed(tags)
        fwd      == ParseFloat(TagGet(tags, "maxspeed:forward", "0"))
        \* float(...) or speed
        speed1   == IF ~fwd.ok THEN speed0
                    ELSE IF fwd.val # 0 THEN Some(fwd.val) ELSE speed0
        bwd      == ParseFloat(TagGet(tags, "maxspeed:backward", "0"))
        back1    == IF ~bwd.ok THEN None
                    ELSE IF bwd.val # 0 THEN Some(bwd.val) ELSE speed1
    IN  IF oneway
        THEN [speed |-> speed0, back_speed |-> None]
        ELSE [speed |-> speed1, back_speed |-> back1]

\* Mutant: the tags of the two directions are exchanged.
ResolveLanes_Exchanged(tags, oneway) ==
    LET road_type == tags["highway"]
        total     == ParseInt(TagGet(tags, "lanes", ""))
        lanes0    == IF oneway
                     THEN IF total.ok THEN Some(Max(total.val, 1)) ELSE None
                     ELSE LET dir == ParseInt(TagGet(tags, "lanes:backward", "0"))
                          IN  IF ~dir.ok THEN None
                              ELSE IF dir.val # 0 THEN Some(Max(dir.val, 1))
                              ELSE IF ~total.ok THEN None
                              ELSE Some(Max(total.val \div 2, 1))
        back0     == IF oneway THEN None
                     ELSE LET dir == ParseInt(TagGet(tags, "lanes:forward", "0"))
                          IN  IF ~dir.ok THEN None
                              ELSE IF dir.val # 0 THEN Some(Max(dir.val, 1))
                              ELSE IF ~total.ok THEN None
                              ELSE Some(Max(total.val \div 2, 1))
        default   == IF road_type \in DOMAIN DEFAULT_LANES
                     THEN DEFAULT_LANES[road_type] ELSE 1
    IN  [lanes      |-> IF lanes0.some THEN lanes0.val ELSE default,
         back_lanes |-> IF back0.some THEN back0.val ELSE default]

\* Mutant: the tag lanes is not halved.
DirectionLanes_NoHalf(tags, key) ==
    LET dir   == ParseInt(TagGet(tags, key, "0"))
        total == ParseInt(TagGet(tags, "lanes", ""))
    IN  IF ~dir.ok THEN None
        ELSE IF dir.val # 0 THEN Some(Max(dir.val, 1))
        ELSE IF ~total.ok THEN None
        ELSE Some(Max(total.val, 1))

\* Mutant: without max(., 1).
DirectionLanes_NoMax(tags, key) ==
    LET dir   == ParseInt(TagGet(tags, key, "0"))
        total == ParseInt(TagGet(tags, "lanes", ""))
    IN  IF ~dir.ok THEN None
        ELSE IF dir.val # 0 THEN Some(dir.val)
        ELSE IF ~total.ok THEN None
        ELSE Some(total.val \div 2)

\* int(tags.get(key, "0")) or int(tags.get("lanes", "")) // 2, then max(., 1)
DirectionLanes(tags, key) ==
    LET dir   == ParseInt(TagGet(tags, key, "0"))
        total == ParseInt(TagGet(tags, "lanes", ""))
    IN  IF ~dir.ok THEN None
        ELSE IF dir.val # 0 THEN Some(Max(dir.val, 1))
        ELSE IF ~total.ok THEN None
        ELSE Some(Max(total.val \div 2, 1))

\* The number of lanes of the two directions: [lanes, back_lanes].
ResolveLanes(tags, oneway) ==
    LET road_type == tags["highway"]
        total     == ParseInt(TagGet(tags, "lanes", ""))
        lanes0    == IF oneway
                     THEN IF total.ok THEN Some(Max(total.val, 1)) ELSE None
                     ELSE DirectionLanes(tags, "lanes:forward")
        back0     == IF oneway THEN None
                     ELSE DirectionLanes(tags, "lanes:backward")
        default   == IF road_type \in DOMAIN DEFAULT_LANES
                     THEN DEFAULT_LANES[road_type] ELSE 1
    IN  [lanes      |-> IF lanes0.some THEN lanes0.val ELSE default,
         back_lanes |-> IF back0.some THEN back0.val ELSE default]

(***************************************************************************)
(* EdgeReader: geometry                                                    *)
(***************************************************************************)
\* The position of a raw point, and the distance of two raw points.
Pos(p) == p
Dist(p, q) == IF Pos(p) >= Pos(q) THEN Pos(p) - Pos(q) ELSE Pos(q) - Pos(p)

\* The sum of the distances between consecutive points.
RECURSIVE PathLength(_)
PathLength(coords) ==
    IF Len(coords) < 2
    THEN 0
    ELSE Dist(coords[1], coords[2]) + PathLength(Tail(coords))

Reverse(s) == [i \in 1..Len(s) |-> s[Len(s) + 1 - i]]

(***************************************************************************)
(* EdgeReader: the edges of a way                                          *)
(***************************************************************************)
\* The two edges of a segment: [forward, backward].
SegmentEdges(er, way, source, target, a) ==
    LET source_id == nodes[way.nodes[source]]
        target_id == nodes[way.nodes[target]]
        coords    == SelectSeq(SubSeq(way.nodes, source, target),
                               LAMBDA p : p \in located)
        length    == PathLength(coords)
        edge_id   == er.counter
    IN  [forward  |-> [id |-> edge_id, road_type |-> a.road_type,
                       lanes |-> a.lanes, length |-> length,
                       speed |-> a.speed, capacity |-> a.capacity,
                       source |-> source_id, target |-> target_id,
                       osm_id |-> way.id, geometry |-> coords],
         backward |-> [id |-> edge_id + 1, road_type |-> a.road_type,
                       lanes |-> a.back_lanes, length |-> length,
                       speed |-> a.back_speed, capacity |-> a.capacity,
                       source |-> target_id, target |-> source_id,
                       osm_id |-> way.id, geometry |-> Reverse(coords)]]

\* Mutant: no test of source_id = target_id.
add_edge_NoLoopTest(er, way, source, target, a) ==
    LET e == SegmentEdges(er, way, source, target, a)
    IN  IF a.oneway
        THEN [edges   |-> Append(er.edges, e.forward),
              counter |-> er.counter + 1]
        ELSE [edges   |-> er.edges \o <<e.forward, e.backward>>,
              counter |-> er.counter + 2]

\* Mutant: the backward edge is created for a one-way way too.
add_edge_AlwaysTwin(er, way, source, target, a) ==
    LET e == SegmentEdges(er, way, source, target, a)
    IN  IF e.forward.source = e.forward.target
        THEN er
        ELSE [edges   |-> er.edges \o <<e.forward, e.backward>>,
              counter |-> er.counter + 2]

\* An EdgeReader: [edges, counter].  An attribute record a:
\* [oneway, road_type, lanes, back_lanes, speed, back_speed, capacity].
add_edge(er, way, source, target, a) ==
    LET e == SegmentEdges(er, way, source, target, a)
    IN  IF e.forward.source = e.forward.target
        THEN er
        ELSE IF a.oneway
             THEN [edges   |-> Append(er.edges, e.forward),
                   counter |-> er.counter + 1]
             ELSE [edges   |-> er.edges \o <<e.forward, e.backward>>,
                   counter |-> er.counter + 2]

\* The first node reference of the way, from the i-th on, that is a vertex;
\* 0 if there is none.
RECURSIVE FirstVertex(_, _)
FirstVertex(wnodes, i) ==
    IF i > Len(wnodes) THEN 0
    ELSE IF wnodes[i] \in DOMAIN nodes THEN i
    ELSE FirstVertex(wnodes, i + 1)

\* Mutant: the source stays the first vertex of the way.
RECURSIVE SegmentLoop_NoAdvance(_, _, _, _, _)
SegmentLoop_NoAdvance(er, way, a, source, k) ==
    IF k > Len(way.nodes)
    THEN er
    ELSE IF way.nodes[k] \in DOMAIN nodes
         THEN SegmentLoop_NoAdvance(add_edge(er, way, source, k, a), way, a,
                                    source, k + 1)
         ELSE SegmentLoop_NoAdvance(er, way, a, source, k + 1)

\* The loop over the node references after the first vertex.
RECURSIVE SegmentLoop(_, _, _, _, _)
SegmentLoop(er, way, a, source, k) ==
    IF k > Len(way.nodes)
    THEN er
    ELSE IF way.nodes[k] \in DOMAIN nodes
         THEN SegmentLoop(add_edge(er, way, source, k, a), way, a, k, k + 1)
         ELSE SegmentLoop(er, way, a, source, k + 1)

add_way(er, way) ==
    IF ~valid_way(way)
    THEN er
    ELSE LET road_type == way.tags["highway"]
             oneway    == IsOneway(way.tags)
             sp        == ResolveSpeed(way.tags, oneway)
             ln        == ResolveLanes(way.tags, oneway)
             a         == [oneway     |-> oneway,
                           road_type  |-> ROADTYPE_TO_ID[road_type],
                           lanes      |-> ln.lanes,
                           back_lanes |-> ln.back_lanes,
                           speed      |-> sp.speed,
                           back_speed |-> sp.back_speed,
                           capacity   |-> CAPACITY[road_type]]
             source    == FirstVertex(way.nodes, 1)
         IN  IF source = 0
             THEN er
             ELSE SegmentLoop(er, way, a, source, source + 1)

(***************************************************************************)
(* post_process: the largest strongly connected component                  *)
(***************************************************************************)
\* The nodes of the graph G built from the rows of a table.
GraphNodes(df) ==
    {df[i].source : i \in DOMAIN df} \cup {df[i].target : i \in DOMAIN df}

\* The nodes reached from the set of nodes S along the rows of the table.
RECURSIVE ReachFrom(_, _)
ReachFrom(df, S) ==
    LET step == S \cup {df[i].target : i \in {j \in DOMAIN df : df[j].source \in S}}
    IN  IF step = S THEN S ELSE ReachFrom(df, step)

\* nx.strongly_connected_components(G)
StronglyConnectedComponents(df) ==
    {{u \in ReachFrom(df, {v}) : v \in ReachFrom(df, {u})} : v \in GraphNodes(df)}

\* Mutant: a component of any size.
LargestComponents_Any(df) == StronglyConnectedComponents(df)

\* The values max(..., key=len) can return: a component of the largest size.
\* Which one of several of the same size depends on the order in which
\* networkx yields the components.
LargestComponents(df) ==
    LET comps == StronglyConnectedComponents(df)
    IN  {c \in comps : \A d \in comps : Cardinality(c) >= Cardinality(d)}

\* Mutant: no row is discarded.
ConnectivityFilter_Skipped(df, connected_nodes) == df

\* Mutant: a row is kept when one of its two ends is in the component.
ConnectivityFilter_Either(df, connected_nodes) ==
    IF Cardinality(connected_nodes) < Cardinality(GraphNodes(df))
    THEN SelectSeq(df, LAMBDA e : \/ e.source \in connected_nodes
                                  \/ e.target \in connected_nodes)
    ELSE df

\* The rows kept once connected_nodes is known.
ConnectivityFilter(df, connected_nodes) ==
    IF Cardinality(connected_nodes) < Cardinality(GraphNodes(df))
    THEN SelectSeq(df, LAMBDA e : /\ e.source \in connected_nodes
                                  /\ e.target \in connected_nodes)
    ELSE df

(***************************************************************************)
(* post_process: flags and default speeds                                  *)
(***************************************************************************)
RoadTypeIds(highways) == {ROADTYPE_TO_ID[h] : h \in highways}

\* The highway tag of a road type id.
HighwayOf(road_type) ==
    CHOOSE h \in DOMAIN ROADTYPE_TO_ID : ROADTYPE_TO_ID[h] = road_type

IsMainGraph(road_type) == road_type \in RoadTypeIds(MAIN_HIGHWAYS)

\* Mutant: without the negation.
IsAllowOd_Forbidden(road_type) == road_type \in RoadTypeIds(OD_FORBIDDEN)

IsAllowOd(road_type) == road_type \notin RoadTypeIds(OD_FORBIDDEN)

\* urban_area.contains(geom)
Contains(region, geometry) ==
    \A i \in DOMAIN geometry : geometry[i] \in region

\* Mutant: the default speed replaces the speed of the tags too.
ImputedSpeed_Every(e, urban) ==
    IF urban
    THEN Some(DEFAULT_SPEED_URBAN[HighwayOf(e.road_type)])
    ELSE Some(DEFAULT_SPEED_RURAL[HighwayOf(e.road_type)])

\* Mutant: the two tables of default speeds are exchanged.
ImputedSpeed_Exchanged(e, urban) ==
    IF e.speed.some
    THEN e.speed
    ELSE IF urban
         THEN Some(DEFAULT_SPEED_RURAL[HighwayOf(e.road_type)])
         ELSE Some(DEFAULT_SPEED_URBAN[HighwayOf(e.road_type)])

\* The speed of a row after the two assignments of the default speeds.
ImputedSpeed(e, urban) ==
    IF e.speed.some
    THEN e.speed
    ELSE IF urban
         THEN Some(DEFAULT_SPEED_URBAN[HighwayOf(e.road_type)])
         ELSE Some(DEFAULT_SPEED_RURAL[HighwayOf(e.road_type)])

\* The table with the columns main_graph, allow_od and urban, and with the
\* speeds filled.
FlagAndImpute(df, region) ==
    [i \in DOMAIN df |->
        LET e     == df[i]
            urban == Contains(region, e.geometry)
        IN  [label      |-> e.label,
             road_type  |-> e.road_type,
             lanes      |-> e.lanes,
             length     |-> e.length,
             speed      |-> ImputedSpeed(e, urban),
             capacity   |-> e.capacity,
             source     |-> e.source,
             target     |-> e.target,
             osm_id     |-> e.osm_id,
             geometry   |-> e.geometry,
             main_graph |-> IsMainGraph(e.road_type),
             allow_od   |-> IsAllowOd(e.road_type),
             urban      |-> urban]]

(***************************************************************************)
(* post_process: duplicate edges                                           *)
(***************************************************************************)
Labels(df) == {df[i].label : i \in DOMAIN df}

\* tt(a) < tt(b) for tt = length / (speed / 3.6).  A speed of zero gives an
\* infinite travel time (lengths of edges are positive).
TravelTimeLess(a, b) ==
    LET sa == a.speed.val
        sb == b.speed.val
    IN  IF sa = 0 THEN FALSE
        ELSE IF sb = 0 THEN TRUE
        ELSE sa * sb * (a.length * sb - b.length * sa) < 0

\* Mutant: tt.argmax(), the first position of the largest travel time.
ArgMin_Max(df) ==
    CHOOSE i \in DOMAIN df :
        /\ \A j \in DOMAIN df : ~TravelTimeLess(df[i], df[j])
        /\ \A j \in 1..(i - 1) : TravelTimeLess(df[j], df[i])

\* tt.argmin(): the first position of the smallest travel time.
ArgMin(df) ==
    CHOOSE i \in DOMAIN df :
        /\ \A j \in DOMAIN df : ~TravelTimeLess(df[j], df[i])
        /\ \A j \in 1..(i - 1) : TravelTimeLess(df[i], df[j])

\* Mutant: the smallest capacity.
MaxCapacity_Min(df) ==
    CHOOSE c \in {df[i].capacity : i \in DOMAIN df} :
        \A i \in DOMAIN df : df[i].capacity >= c

\* dupl["capacity"].max()
MaxCapacity(df) ==
    CHOOSE c \in {df[i].capacity : i \in DOMAIN df} :
        \A i \in DOMAIN df : df[i].capacity <= c

\* Mutant: the labels of the main rows.
NonMainLabels_Main(dupl) ==
    Labels(SelectSeq(dupl, LAMBDA e : e.main_graph))

\* dupl.loc[~dupl["main_graph"]].index
NonMainLabels(dupl) ==
    Labels(SelectSeq(dupl, LAMBDA e : ~e.main_graph))

\* Mutant: rows of the same capacity are all kept.
SlowerLabels_None(dupl) == {}

\* The labels of the rows that have not the smallest travel time, if there
\* are several rows.
SlowerLabels(dupl) ==
    IF Len(dupl) > 1
    THEN Labels(dupl) \ {dupl[ArgMin(dupl)].label}
    ELSE {}

\* The labels the loop body adds to to_remove for the pair (s, t).
GroupIndices(df, s, t) ==
    LET dupl         == SelectSeq(df, LAMBDA e : e.source = s /\ e.target = t)
        nb_mains     == Cardinality({i \in DOMAIN dupl : dupl[i].main_graph})
        nb_secondary == Len(dupl) - nb_mains
    IN  IF nb_mains = 1
        THEN NonMainLabels(dupl)
        ELSE LET mixed        == nb_mains > 0 /\ nb_secondary > 0
                 dupl1        == IF mixed
                                 THEN SelectSeq(dupl, LAMBDA e : e.main_graph)
                                 ELSE dupl
                 max_capacity == MaxCapacity(dupl1)
                 lower        == Labels(SelectSeq(dupl1,
                                     LAMBDA e : e.capacity < max_capacity))
                 dupl2        == SelectSeq(dupl1,
                                     LAMBDA e : e.capacity = max_capacity)
             IN  (IF mixed THEN NonMainLabels(dupl) ELSE {})
                     \cup lower \cup SlowerLabels(dupl2)

\* The (source, target) pairs that more than one row has.
DuplicatePairs(df) ==
    {<<df[i].source, df[i].target>> : i \in
        {j \in DOMAIN df : \E k \in DOMAIN df :
            /\ k # j
            /\ df[k].source = df[j].source
            /\ df[k].target = df[j].target}}

ToRemove(df) ==
    UNION {GroupIndices(df, st[1], st[2]) : st \in DuplicatePairs(df)}

\* Mutant: the rows are dropped by position, not by label.
Drop_ByPosition(df, to_remove) ==
    SelectSeq([i \in DOMAIN df |-> [df[i] EXCEPT !.label = i - 1]],
              LAMBDA e : e.label \notin to_remove)

\* edges.drop(labels=to_remove)
Drop(df, to_remove) ==
    SelectSeq(df, LAMBDA e : e.label \notin to_remove)

(***************************************************************************)
(* post_process: the final table                                           *)
(***************************************************************************)
\* A row of the final table, with the value of its column index.
FinalRow(e, index) ==
    [index      |-> index,
     label      |-> e.label,
     source     |-> e.source,
     target     |-> e.target,
     length     |-> e.length,
     speed      |-> e.speed,
     lanes      |-> e.lanes,
     main_graph |-> e.main_graph,
     allow_od   |-> e.allow_od,
     capacity   |-> e.capacity,
     osm_id     |-> e.osm_id,
     road_type  |-> e.road_type,
     geometry   |-> e.geometry]

\* Mutant: the index is not reset, and the column index takes the labels.
ResetIndex_Missing(df) == [i \in DOMAIN df |-> FinalRow(df[i], df[i].label)]

\* reset_index(drop=True), then the column index takes the new index.
ResetIndex(df) == [i \in DOMAIN df |-> FinalRow(df[i], i - 1)]

\* GeoDataFrame.from_features: one row per edge, labelled by its position.
FromFeatures(features) ==
    [i \in DOMAIN features |->
        [label     |-> i - 1,
         road_type |-> features[i].road_type,
         lanes     |-> features[i].lanes,
         length    |-> features[i].length,
         speed     |-> features[i].speed,
         capacity  |-> features[i].capacity,
         source    |-> features[i].source,
         target    |-> features[i].target,
         osm_id    |-> features[i].osm_id,
         geometry  |-> features[i].geometry]]

\* The tables of post_process, for the component max() returned.
PostProcessTables(features, region, connected_nodes) ==
    LET raw       == FromFeatures(features)
        filtered  == ConnectivityFilter(raw, connected_nodes)
        imputed   == FlagAndImpute(filtered, region)
        to_remove == ToRemove(imputed)
        dropped   == Drop(imputed, to_remove)
    IN  [raw             |-> raw,
         connected_nodes |-> connected_nodes,
         filtered        |-> filtered,
         imputed         |-> imputed,
         to_remove       |-> to_remove,
         final           |-> ResetIndex(dropped)]

(***************************************************************************)
(* UrbanAreasReader                                                        *)
(***************************************************************************)
\* An area record: [landuse, rings, region], region being the raw points
\* within 50 meters of the polygon.
is_urban_area(area) ==
    area.landuse \in URBAN_LANDUSE /\ area.rings > 0

\* get_urban_area, buffer and prep: the union of the regions.
get_urban_area(wkb) == UNION {wkb[i] : i \in DOMAIN wkb}

(***************************************************************************)
(* The extracts of the model.                                              *)
(***************************************************************************)
NoTags == [k \in TagKeys |-> Absent]

\* The tag mapping of a way: highway, oneway and maxspeed.
WayTags(highway, oneway, maxspeed) ==
    [NoTags EXCEPT !["highway"] = highway, !["oneway"] = oneway,
                   !["maxspeed"] = maxspeed]

\* The tag mappings of the ways of an extract of several ways.
CoreTags ==
    {WayTags("primary", Absent, Absent),
     WayTags("primary", "yes", "50"),
     WayTags("tertiary", "yes", "30"),
     WayTags("residential", "no", "70"),
     WayTags("living_street", Absent, "0"),
     WayTags("service", Absent, Absent)}

\* The tag mappings of the way of an extract of a single way.
SingleTags ==
    {WayTags("secondary", Absent, Absent),
     WayTags("residential", "yes", "abc"),
     [WayTags("tertiary", Absent, Absent) EXCEPT !["junction"] = "roundabout"],
     WayTags("motorway", Absent, Absent),
     [WayTags("primary", Absent, "50") EXCEPT !["access"] = "private"]}

\* The sequences of 1 to n node references.
NodeLists(n) == UNION {[1..k -> Points] : k \in 1..n}

AreaLists ==
    {<<>>,
     <<[landuse |-> "residential", rings |-> 1, region |-> 1..2]>>,
     <<[landuse |-> "forest", rings |-> 1, region |-> Points]>>}

\* The way records of a list of [nodes, tags]: a way's id is its position.
WayRecords(f) ==
    [i \in DOMAIN f |-> [id |-> i, nodes |-> f[i].nodes, tags |-> f[i].tags]]

\* Extracts of up to MaxWays short ways, every point located, no area.
SeveralWays ==
    /\ \E n \in 0..MaxWays :
          \E f \in [1..n -> [nodes : NodeLists(MaxWayLen), tags : CoreTags]] :
              ways = WayRecords(f)
    /\ located = Points
    /\ areas = <<>>

\* Extracts of one longer way, with areas and points that are not located.
SingleWay ==
    /\ \E f \in [1..1 -> [nodes : NodeLists(MaxLongWayLen), tags : SingleTags]] :
          ways = WayRecords(f)
    /\ located \in {Points, Points \ {1}}
    /\ areas \in AreaLists

NoTables ==
    [raw |-> <<>>, connected_nodes |-> {}, filtered |-> <<>>,
     imputed |-> <<>>, to_remove |-> {}, final |-> <<>>]

Init ==
    /\ \/ osm_file = TRUE /\ (SeveralWays \/ SingleWay)
       \/ osm_file = FALSE /\ ways = <<>> /\ located = {} /\ areas = <<>>
    /\ pc = "start"
    /\ pos = 0
    /\ all_nodes = {}
    /\ nodes = <<>>
    /\ node_counter = 0
    /\ edges = <<>>
    /\ edge_counter = 0
    /\ areas_wkb = <<>>
    /\ urban_area = {}
    /\ pp = NoTables
    /\ edges_df = <<>>

(***************************************************************************)
(* The main script.                                                        *)
(***************************************************************************)
\* Mutant: the script goes on when the file does not exist.
CheckFile_NoExit ==
    /\ pc = "start"
    /\ pc' = "nodes"
    /\ UNCHANGED <<osm_file, ways, located, areas, pos, all_nodes, nodes,
                   node_counter, edges, edge_counter, areas_wkb, urban_area,
                   pp, edges_df>>

\* os.path.exists(OSM_FILE), and the construction of the NodeReader.
CheckFile ==
    /\ pc = "start"
    /\ pc' = IF osm_file THEN "nodes" ELSE "exit"
    /\ UNCHANGED <<osm_file, ways, located, areas, pos, all_nodes, nodes,
                   node_counter, edges, edge_counter, areas_wkb, urban_area,
                   pp, edges_df>>

\* NodeReader.way for the next way of the file.
NodeReaderStep ==
    /\ pc = "nodes"
    /\ pos < Len(ways)
    /\ LET nr == NodeReaderWay([all_nodes |-> all_nodes, nodes |-> nodes,
                                counter |-> node_counter], ways[pos + 1])
       IN  /\ all_nodes' = nr.all_nodes
           /\ nodes' = nr.nodes
           /\ node_counter' = nr.counter
    /\ pos' = pos + 1
    /\ UNCHANGED <<osm_file, ways, located, areas, pc, edges, edge_counter,
                   areas_wkb, urban_area, pp, edges_df>>

\* Mutant: the EdgeReader is built before the first scan is over.
NodeReaderDone_Early ==
    /\ pc = "nodes"
    /\ pos <= Len(ways)
    /\ pc' = "edges"
    /\ pos' = 0
    /\ edges' = <<>>
    /\ edge_counter' = 0
    /\ UNCHANGED <<osm_file, ways, located, areas, all_nodes, nodes,
                   node_counter, areas_wkb, urban_area, pp, edges_df>>

\* The end of the first scan, and the construction of the EdgeReader.
NodeReaderDone ==
    /\ pc = "nodes"
    /\ pos = Len(ways)
    /\ pc' = "edges"
    /\ pos' = 0
    /\ edges' = <<>>
    /\ edge_counter' = 0
    /\ UNCHANGED <<osm_file, ways, located, areas, all_nodes, nodes,
                   node_counter, areas_wkb, urban_area, pp, edges_df>>

\* EdgeReader.way for the next way of the file.
EdgeReaderStep ==
    /\ pc = "edges"
    /\ pos < Len(ways)
    /\ LET er == add_way([edges |-> edges, counter |-> edge_counter],
                         ways[pos + 1])
       IN  /\ edges' = er.edges
           /\ edge_counter' = er.counter
    /\ pos' = pos + 1
    /\ UNCHANGED <<osm_file, ways, located, areas, pc, all_nodes, nodes,
                   node_counter, areas_wkb, urban_area, pp, edges_df>>

\* The end of the second scan, and the construction of the UrbanAreasReader.
EdgeReaderDone ==
    /\ pc = "edges"
    /\ pos = Len(ways)
    /\ pc' = "areas"
    /\ pos' = 0
    /\ areas_wkb' = <<>>
    /\ UNCHANGED <<osm_file, ways, located, areas, all_nodes, nodes,
                   node_counter, edges, edge_counter, urban_area, pp,
                   edges_df>>

\* UrbanAreasReader.area for the next area of the file.
UrbanAreasStep ==
    /\ pc = "areas"
    /\ pos < Len(areas)
    /\ areas_wkb' = IF is_urban_area(areas[pos + 1])
                    THEN Append(areas_wkb, areas[pos + 1].region)
                    ELSE areas_wkb
    /\ pos' = pos + 1
    /\ UNCHANGED <<osm_file, ways, located, areas, pc, all_nodes, nodes,
                   node_counter, edges, edge_counter, urban_area, pp,
                   edges_df>>

\* The end of the third scan: the urban area, buffered and prepared.
UrbanAreasDone ==
    /\ pc = "areas"
    /\ pos = Len(areas)
    /\ urban_area' = get_urban_area(areas_wkb)
    /\ pc' = "post"
    /\ UNCHANGED <<osm_file, ways, located, areas, pos, all_nodes, nodes,
                   node_counter, edges, edge_counter, areas_wkb, pp,
                   edges_df>>

\* EdgeReader.post_process
PostProcess ==
    /\ pc = "post"
    /\ edges # <<>>
    /\ \E connected_nodes \in LargestComponents(FromFeatures(edges)) :
          pp' = PostProcessTables(edges, urban_area, connected_nodes)
    /\ edges_df' = pp'.final
    /\ pc' = "write"
    /\ UNCHANGED <<osm_file, ways, located, areas, pos, all_nodes, nodes,
                   node_counter, edges, edge_counter, areas_wkb, urban_area>>

\* EdgeReader.post_process without any edge: the graph has no component, and
\* max() raises.
PostProcessRaises ==
    /\ pc = "post"
    /\ edges = <<>>
    /\ pc' = "raised"
    /\ UNCHANGED <<osm_file, ways, located, areas, pos, all_nodes, nodes,
                   node_counter, edges, edge_counter, areas_wkb, urban_area,
                   pp, edges_df>>

\* EdgeReader.write_edges
WriteEdges ==
    /\ pc = "write"
    /\ pc' = "done"
    /\ UNCHANGED <<osm_file, ways, located, areas, pos, all_nodes, nodes,
                   node_counter, edges, edge_counter, areas_wkb, urban_area,
                   pp, edges_df>>

Next ==
    \/ CheckFile
    \/ NodeReaderStep
    \/ NodeReaderDone
    \/ EdgeReaderStep
    \/ EdgeReaderDone
    \/ UrbanAreasStep
    \/ UrbanAreasDone
    \/ PostProcess
    \/ PostProcessRaises
    \/ WriteEdges

Spec == Init /\ [][Next]_vars

(***************************************************************************)
(* The attributes of the edges of one way, for the values of its tags.     *)
(***************************************************************************)
LaneValues == {Absent, "0", "-1", "x", "2", "3", "4"}
SpeedValues == {Absent, "0", "abc", "30", "FR:walk", "FR:urban", "FR:rural"}
DirectedSpeedValues == {Absent, "0", "abc", "30", "70"}

\* The tag mappings of a primary road or a motorway, one-way or not, ...
DirectionTags ==
    {[NoTags EXCEPT !["highway"] = h, !["oneway"] = o, !["junction"] = j] :
        h \in {"primary", "motorway"}, o \in {Absent, "yes", "no"},
        j \in {Absent, "roundabout"}}

\* ... with the tags of the lanes, ...
LaneTags ==
    {[t EXCEPT !["lanes"] = l, !["lanes:forward"] = f, !["lanes:backward"] = b] :
        t \in DirectionTags, l \in LaneValues, f \in LaneValues,
        b \in LaneValues}

\* ... or with the tags of the maximum speed.
SpeedTags ==
    {[t EXCEPT !["maxspeed"] = m, !["maxspeed:forward"] = f,
               !["maxspeed:backward"] = b] :
        t \in DirectionTags, m \in SpeedValues, f \in DirectedSpeedValues,
        b \in DirectedSpeedValues}

\* Extracts of one way of one or two edge segments, every point located.
InitTags ==
    /\ osm_file = TRUE
    /\ \E f \in [1..1 -> [nodes : {<<1, 2>>, <<1, 3, 2>>, <<1, 2, 2, 3>>},
                          tags : LaneTags \cup SpeedTags]] :
          ways = WayRecords(f)
    /\ located = Points
    /\ areas = <<>>
    /\ pc = "start"
    /\ pos = 0
    /\ all_nodes = {}
    /\ nodes = <<>>
    /\ node_counter = 0
    /\ edges = <<>>
    /\ edge_counter = 0
    /\ areas_wkb = <<>>
    /\ urban_area = {}
    /\ pp = NoTables
    /\ edges_df = <<>>

\* The two scans of the ways.
NextTags ==
    \/ CheckFile
    \/ NodeReaderStep
    \/ NodeReaderDone
    \/ EdgeReaderStep

SpecTags == InitTags /\ [][NextTags]_vars

(***************************************************************************)
(* Properties.                                                             *)
(***************************************************************************)
\* post_process has returned: edges_df is the final edge table.
Final == pc \in {"write", "done"}

\* The rows of a table between source s and target t.
Group(df, s, t) == {i \in DOMAIN df : df[i].source = s /\ df[i].target = t}

\* The (source, target) pairs of a table.
Pairs(df) == {<<df[i].source, df[i].target>> : i \in DOMAIN df}

\* The pairs of the table the Duplicate Resolver reads that several rows have.
DuplicateGroups == {st \in Pairs(pp.imputed) :
                       Cardinality(Group(pp.imputed, st[1], st[2])) > 1}

\* The rows of the table the Duplicate Resolver reads that are in the final
\* table.
Kept(s, t) == {i \in Group(pp.imputed, s, t) :
                  \E k \in DOMAIN edges_df : edges_df[k].label = pp.imputed[i].label}

\* C1: the final edge table holds no two edges with the same ordered
\* (source, target) pair.
C1_UniquePairs ==
    Final => \A i, j \in DOMAIN edges_df :
                 (edges_df[i].source = edges_df[j].source
                    /\ edges_df[i].target = edges_df[j].target) => i = j

\* A final table of several edges, left by the removal of a group of three
\* edges or more.
C1_Witness ==
    /\ Final
    /\ Len(edges_df) >= 2
    /\ \E st \in DuplicateGroups :
           Cardinality(Group(pp.imputed, st[1], st[2])) >= 3

\* C2: the graph of the final edge table is strongly connected: every vertex
\* of a final edge reaches every other one along final edges.
C2_StronglyConnected ==
    Final => \A u, v \in GraphNodes(edges_df) : v \in ReachFrom(edges_df, {u})

\* A final table of two vertices or more, after the Connectivity Filter and the
\* Duplicate Resolver both removed edges.
C2_Witness ==
    /\ Final
    /\ Cardinality(GraphNodes(edges_df)) >= 2
    /\ Len(pp.filtered) < Len(pp.raw)
    /\ pp.to_remove # {}

\* C3: every edge of the final edge table has a speed, and it is > 0.
C3_SpeedPositive ==
    Final => \A i \in DOMAIN edges_df :
                 edges_df[i].speed.some /\ edges_df[i].speed.val > 0

\* The node references i < j of the way are one vertex, with no vertex
\* between them: the segment from i to j is a self-loop.
SelfLoopSegment(way, i, j) ==
    /\ way.nodes[i] \in DOMAIN nodes
    /\ way.nodes[j] = way.nodes[i]
    /\ \A k \in (i + 1)..(j - 1) : way.nodes[k] \notin DOMAIN nodes

\* C4: no edge has source = target, and the edge ids are the positions of the
\* edges in the list: a segment that is a self-loop adds no edge and takes no
\* id.
C4_NoSelfLoop ==
    /\ \A i \in DOMAIN edges :
           edges[i].source # edges[i].target /\ edges[i].id = i - 1
    /\ edge_counter = Len(edges)
    /\ \A i \in DOMAIN edges_df : edges_df[i].source # edges_df[i].target

\* The EdgeReader has just handled a valid way with a self-loop segment, and
\* has created edges.
C4_Witness ==
    /\ pc = "edges"
    /\ pos > 0
    /\ valid_way(ways[pos])
    /\ \E i, j \in DOMAIN ways[pos].nodes :
           i < j /\ SelfLoopSegment(ways[pos], i, j)
    /\ edges # <<>>

\* C5: the index values of the final edge table are 0..M-1, each used once,
\* M being the number of its edges.
C5_DenseIndex ==
    Final =>
        /\ {edges_df[i].index : i \in DOMAIN edges_df} = 0..(Len(edges_df) - 1)
        /\ \A i, j \in DOMAIN edges_df :
               edges_df[i].index = edges_df[j].index => i = j

\* A final table after the Connectivity Filter and the Duplicate Resolver both
\* removed edges, in which an edge is not at the place it was created at.
C5_Witness ==
    /\ Final
    /\ Len(pp.filtered) < Len(pp.raw)
    /\ pp.to_remove # {}
    /\ \E i \in DOMAIN edges_df : edges_df[i].index # edges_df[i].label

\* C6: the Duplicate Resolver keeps exactly one edge of every (source,
\* target) pair, removes nothing but edges it read, and so leaves the set of
\* pairs as it was.
C6_OneSurvivor ==
    Final =>
        /\ \A st \in Pairs(pp.imputed) :
               Cardinality(Kept(st[1], st[2])) = 1
        /\ \A k \in DOMAIN edges_df :
               \E i \in DOMAIN pp.imputed :
                   /\ pp.imputed[i].label = edges_df[k].label
                   /\ pp.imputed[i].source = edges_df[k].source
                   /\ pp.imputed[i].target = edges_df[k].target
        /\ Pairs(edges_df) = Pairs(pp.imputed)

\* The Duplicate Resolver read a group of three edges or more and a group of
\* one edge.
C6_Witness ==
    /\ Final
    /\ \E st \in Pairs(pp.imputed) :
           Cardinality(Group(pp.imputed, st[1], st[2])) >= 3
    /\ \E st \in Pairs(pp.imputed) :
           Cardinality(Group(pp.imputed, st[1], st[2])) = 1

\* C7: the survivor of a duplicate group that holds an edge with main_graph
\* is an edge with main_graph.
C7_MainSurvives ==
    Final =>
        \A st \in DuplicateGroups :
            (\E i \in Group(pp.imputed, st[1], st[2]) : pp.imputed[i].main_graph)
                => \A i \in Kept(st[1], st[2]) : pp.imputed[i].main_graph

\* A duplicate group whose main survivor beats an edge that is not main, of
\* the same capacity and of a smaller travel time.
C7_Witness ==
    /\ Final
    /\ \E st \in DuplicateGroups :
           \E k \in Kept(st[1], st[2]) :
               \E i \in Group(pp.imputed, st[1], st[2]) :
                   /\ pp.imputed[k].main_graph
                   /\ ~pp.imputed[i].main_graph
                   /\ pp.imputed[i].capacity >= pp.imputed[k].capacity
                   /\ TravelTimeLess(pp.imputed[i], pp.imputed[k])

\* C8: the survivor of a duplicate group has the largest capacity of the
\* edges of the group that have its value of main_graph.
C8_MaxCapacity ==
    Final =>
        \A st \in DuplicateGroups :
            \A k \in Kept(st[1], st[2]) :
                \A i \in Group(pp.imputed, st[1], st[2]) :
                    pp.imputed[i].main_graph = pp.imputed[k].main_graph
                        => pp.imputed[i].capacity <= pp.imputed[k].capacity

\* A duplicate group in which an edge with the survivor's value of main_graph
\* has a smaller capacity and a smaller travel time than the survivor.
C8_Witness ==
    /\ Final
    /\ \E st \in DuplicateGroups :
           \E k \in Kept(st[1], st[2]) :
               \E i \in Group(pp.imputed, st[1], st[2]) :
                   /\ pp.imputed[i].main_graph = pp.imputed[k].main_graph
                   /\ pp.imputed[i].capacity < pp.imputed[k].capacity
                   /\ TravelTimeLess(pp.imputed[i], pp.imputed[k])

\* The edges of the group of row k that tie with it after the main-graph and
\* the capacity steps.
Tied(k) ==
    {i \in Group(pp.imputed, pp.imputed[k].source, pp.imputed[k].target) :
        /\ pp.imputed[i].main_graph = pp.imputed[k].main_graph
        /\ pp.imputed[i].capacity = pp.imputed[k].capacity}

\* C9: no edge that ties with the survivor of a duplicate group after the
\* main-graph and the capacity steps has a smaller travel time than it, and
\* every such edge has a speed.
C9_MinTravelTime ==
    Final =>
        \A st \in DuplicateGroups :
            \A k \in Kept(st[1], st[2]) :
                \A i \in Tied(k) :
                    /\ pp.imputed[i].speed.some
                    /\ ~TravelTimeLess(pp.imputed[i], pp.imputed[k])

\* A survivor that is not the first of the edges it ties with, and a tied
\* edge of larger travel time whose speed was not given by a tag.
C9_Witness ==
    /\ Final
    /\ \E st \in DuplicateGroups :
           \E k \in Kept(st[1], st[2]) :
               \E i \in Tied(k) :
                   /\ i < k
                   /\ TravelTimeLess(pp.imputed[k], pp.imputed[i])
                   /\ \E r \in DOMAIN pp.raw :
                          /\ pp.raw[r].label = pp.imputed[i].label
                          /\ ~pp.raw[r].speed.some

\* The first scan has handled every way.
Selected == pc \notin {"start", "nodes", "exit"}

ValidWays == {i \in DOMAIN ways : valid_way(ways[i])}

\* The first and the last point of a way.
EndPoints(way) == {way.nodes[1], way.nodes[Len(way.nodes)]}

\* C10: when the extract holds a single valid way, the Vertex Selector
\* selects its first and its last point and nothing else.
C10_TwoVertices ==
    (Selected /\ Cardinality(ValidWays) = 1) =>
        \A i \in ValidWays : DOMAIN nodes = EndPoints(ways[i]) \cap located

(***************************************************************************)
(* Properties of the edges of a way.                                       *)
(***************************************************************************)
\* The second scan has handled way number w.
Segmented(w) ==
    /\ w \in DOMAIN ways
    /\ \/ pc = "edges" /\ w <= pos
       \/ pc \in {"areas", "post", "write", "done", "raised"}

\* The segments of a way: the pairs i < j of node references that are
\* vertices, without a vertex between them.
Segments(way) ==
    {ij \in (DOMAIN way.nodes) \X (DOMAIN way.nodes) :
        /\ ij[1] < ij[2]
        /\ way.nodes[ij[1]] \in DOMAIN nodes
        /\ way.nodes[ij[2]] \in DOMAIN nodes
        /\ \A k \in (ij[1] + 1)..(ij[2] - 1) : way.nodes[k] \notin DOMAIN nodes}

\* The segments of a way that are not self-loops.
EdgeSegments(way) ==
    {ij \in Segments(way) : way.nodes[ij[1]] # way.nodes[ij[2]]}

\* The place of a segment among the segments of its way that are not
\* self-loops.
Rank(way, ij) ==
    Cardinality({s \in EdgeSegments(way) : s[1] <= ij[1]})

\* The edges created from way number w, in the order of their creation.
WayEdges(w) == SelectSeq(edges, LAMBDA e : e.osm_id = w)

\* The way carries oneway=yes or junction=roundabout.
TaggedOneway(way) ==
    way.tags["oneway"] = "yes" \/ way.tags["junction"] = "roundabout"

\* C11: a valid one-way way has one edge for each of its segments that is not
\* a self-loop, from the first end of the segment to its second end; a valid
\* way that is not one-way has two, the second with source and target
\* exchanged.
C11_OnewayEdges ==
    \A w \in DOMAIN ways :
        (Segmented(w) /\ valid_way(ways[w])) =>
            LET way  == ways[w]
                segs == EdgeSegments(way)
                wes  == WayEdges(w)
            IN  IF TaggedOneway(way)
                THEN /\ Len(wes) = Cardinality(segs)
                     /\ \A ij \in segs :
                            /\ wes[Rank(way, ij)].source = nodes[way.nodes[ij[1]]]
                            /\ wes[Rank(way, ij)].target = nodes[way.nodes[ij[2]]]
                ELSE /\ Len(wes) = 2 * Cardinality(segs)
                     /\ \A ij \in segs :
                            LET fw == wes[2 * Rank(way, ij) - 1]
                                bw == wes[2 * Rank(way, ij)]
                            IN  /\ fw.source = nodes[way.nodes[ij[1]]]
                                /\ fw.target = nodes[way.nodes[ij[2]]]
                                /\ bw.source = fw.target
                                /\ bw.target = fw.source

\* The second scan is over; a way with oneway=yes and a way that is not
\* one-way have two segments each that are not self-loops.
C11_Witness ==
    /\ pc = "areas"
    /\ \E w \in DOMAIN ways :
           /\ valid_way(ways[w])
           /\ ways[w].tags["oneway"] = "yes"
           /\ Cardinality(EdgeSegments(ways[w])) >= 2
    /\ \E w \in DOMAIN ways :
           /\ valid_way(ways[w])
           /\ ~TaggedOneway(ways[w])
           /\ Cardinality(EdgeSegments(ways[w])) >= 2

\* C12: the forward edges of a way that is not one-way, with the numbers f
\* and b, not zero, in its tags lanes:forward and lanes:backward, have
\* max(f, 1) lanes, their twins max(b, 1) lanes, and the two edges of a
\* segment have the same length.
C12_DirectedLanes ==
    \A w \in DOMAIN ways :
        LET way == ways[w]
            f   == ParseInt(way.tags["lanes:forward"])
            b   == ParseInt(way.tags["lanes:backward"])
            wes == WayEdges(w)
        IN  (/\ Segmented(w) /\ valid_way(way) /\ ~TaggedOneway(way)
             /\ f.ok /\ f.val # 0 /\ b.ok /\ b.val # 0) =>
                \A ij \in EdgeSegments(way) :
                    LET fw == wes[2 * Rank(way, ij) - 1]
                        bw == wes[2 * Rank(way, ij)]
                    IN  /\ fw.lanes = Max(f.val, 1)
                        /\ bw.lanes = Max(b.val, 1)
                        /\ fw.source = bw.target /\ fw.target = bw.source
                        /\ fw.length = bw.length

\* The edges of a way of two segments with lanes:forward=2, lanes:backward=3
\* and lanes=2.
C12_Witness ==
    /\ Segmented(1)
    /\ valid_way(ways[1]) /\ ~TaggedOneway(ways[1])
    /\ ways[1].tags["lanes:forward"] = "2"
    /\ ways[1].tags["lanes:backward"] = "3"
    /\ ways[1].tags["lanes"] = "2"
    /\ Len(edges) = 4

\* The speed of a code of the country in the tag maxspeed.
CodeSpeed == [c \in {"FR:walk", "FR:urban", "FR:rural"} |->
                 CASE c = "FR:walk" -> 20 [] c = "FR:urban" -> 50
                   [] c = "FR:rural" -> 80]

\* The edges created so far for the ways whose tags satisfy P have the speed
\* of the code in the tag maxspeed.
EdgesHaveCodeSpeed(P(_)) ==
    \A k \in DOMAIN edges :
        LET tags == ways[edges[k].osm_id].tags
        IN  (tags["maxspeed"] \in DOMAIN CodeSpeed /\ P(tags)) =>
                edges[k].speed = Some(CodeSpeed[tags["maxspeed"]])

Unresolved == {i \in DOMAIN pp.filtered : ~pp.filtered[i].speed.some}

\* Every point of the geometry of row i is in the urban region.
InUrbanRegion(i) ==
    {pp.filtered[i].geometry[k] : k \in DOMAIN pp.filtered[i].geometry}
        \subseteq urban_area

\* C14: after the default speeds are set, every edge that had no speed has
\* the urban default speed of its road type if its geometry is in the urban
\* region, and the rural default speed of its road type otherwise; with an
\* empty urban region every such edge has the rural default speed.
C14_DefaultSpeeds ==
    Final =>
        /\ DOMAIN pp.imputed = DOMAIN pp.filtered
        /\ \A i \in Unresolved :
              LET highway == HighwayOf(pp.filtered[i].road_type)
              IN  /\ pp.imputed[i].label = pp.filtered[i].label
                  /\ InUrbanRegion(i) =>
                        pp.imputed[i].speed = Some(DEFAULT_SPEED_URBAN[highway])
                  /\ ~InUrbanRegion(i) =>
                        pp.imputed[i].speed = Some(DEFAULT_SPEED_RURAL[highway])
                  /\ urban_area = {} =>
                        pp.imputed[i].speed = Some(DEFAULT_SPEED_RURAL[highway])

\* An edge without a speed in the urban region and another one out of it,
\* of a road type whose two default speeds differ.
C14_Witness ==
    /\ Final
    /\ \E i, j \in Unresolved :
          /\ InUrbanRegion(i) /\ ~InUrbanRegion(j)
          /\ pp.filtered[i].road_type = pp.filtered[j].road_type
          /\ pp.imputed[i].speed # pp.imputed[j].speed

(***************************************************************************)
(* Properties of the main script                                           *)
(***************************************************************************)
\* C16: when the file of the extract does not exist, the script stops before
\* any stage: no vertex is selected, no edge is created, no area is read, no
\* table is computed and no file of edges is written.
C16_MissingFile ==
    ~osm_file =>
        /\ pc \in {"start", "exit"}
        /\ pos = 0
        /\ all_nodes = {} /\ nodes = <<>> /\ node_counter = 0
        /\ edges = <<>> /\ edge_counter = 0
        /\ areas_wkb = <<>> /\ urban_area = {}
        /\ pp = NoTables
        /\ edges_df = <<>>

\* The script has stopped for a file that does not exist.
C16_Witness == ~osm_file /\ pc = "exit"

(***************************************************************************)
(* Properties of the selected vertices                                     *)
(***************************************************************************)
\* The ids are 0..N-1 for the N selected points, one point for each id.
IdsDense ==
    /\ {nodes[p] : p \in DOMAIN nodes} = 0..(Cardinality(DOMAIN nodes) - 1)
    /\ \A p, q \in DOMAIN nodes : nodes[p] = nodes[q] => p = q
    /\ Selected => node_counter = Cardinality(DOMAIN nodes)

\* The references of a way in the order handle_way reads them: the first,
\* the last, then the interior ones.
VisitOrder(way) ==
    <<way.nodes[1], way.nodes[Len(way.nodes)]>>
        \o SubSeq(way.nodes, 2, Len(way.nodes) - 1)

\* The place in VisitOrder(way) where the point p is selected.
SelectedAt(way, p) ==
    LET order == VisitOrder(way)
        at    == {k \in DOMAIN order :
                     /\ order[k] = p
                     /\ \/ k <= 2
                        \/ p \in all_nodes
                        \/ \E j \in 3..(k - 1) : order[j] = p}
    IN  CHOOSE k \in at : \A j \in at : k <= j

\* A step keeps the id of every selected point, and gives the points it
\* selects the next ids, in the order of their selection.
IdsStable ==
    LET new == DOMAIN nodes' \ DOMAIN nodes
    IN  /\ DOMAIN nodes \subseteq DOMAIN nodes'
        /\ \A p \in DOMAIN nodes : nodes'[p] = nodes[p]
        /\ {nodes'[p] : p \in new} =
               node_counter..(node_counter + Cardinality(new) - 1)
        /\ \A p, q \in new :
              SelectedAt(ways[pos'], p) < SelectedAt(ways[pos'], q) =>
                  nodes'[p] < nodes'[q]

\* C17: after any number of ways, the ids of the vertices are 0..N-1 for the
\* N selected points, a point has one id at most, the ids follow the order
\* in which the points are selected, and no later way changes an id.
C17_VertexIds == [](IdsDense) /\ [][IdsStable]_vars

\* Three points are selected, two of them by one way, and a second way has
\* met a point that had an id.
C17_Witness ==
    /\ pc = "nodes" /\ pos = 2
    /\ Cardinality(DOMAIN nodes) = 3
    /\ \E p \in DOMAIN nodes :
          /\ \E i \in DOMAIN ways[1].nodes : ways[1].nodes[i] = p
          /\ \E i \in DOMAIN ways[2].nodes : ways[2].nodes[i] = p
    /\ valid_way(ways[1]) /\ valid_way(ways[2])

\* The valid ways that the first scan has handled.
HandledWays ==
    {w \in DOMAIN ways :
        /\ valid_way(ways[w])
        /\ \/ pc = "nodes" /\ w <= pos
           \/ Selected}

\* The ways of HandledWays with a reference to the point p.
WaysThrough(p) ==
    {w \in HandledWays : \E i \in DOMAIN ways[w].nodes : ways[w].nodes[i] = p}

\* C18: a point that is neither the first nor the last point of a valid way
\* is selected only when a second, distinct valid way has met it; a point of
\* one way only, however many times that way visits it, is not selected as
\* an interior point.
C18_InteriorOfTwoWays ==
    \A p \in DOMAIN nodes :
        \/ \E w \in HandledWays : p \in EndPoints(ways[w])
        \/ Cardinality(WaysThrough(p)) >= 2

\* C19: no point without valid coordinates is selected, the first and the
\* last point of a valid way included; a way whose points all lack valid
\* coordinates adds no vertex and gets no edge.
C19_LocatedVertices ==
    /\ DOMAIN nodes \subseteq located
    /\ \A k \in DOMAIN edges :
          {edges[k].geometry[i] : i \in DOMAIN edges[k].geometry}
              \subseteq located
    /\ \A w \in DOMAIN ways :
          (\A i \in DOMAIN ways[w].nodes : ways[w].nodes[i] \notin located) =>
              /\ WayEdges(w) = <<>>
              /\ (\A v \in DOMAIN ways : v # w => ~valid_way(ways[v])) =>
                    nodes = <<>>

\* The two scans are over for a valid way whose first point has no valid
\* coordinates and whose last point is selected.
C19_Witness ==
    /\ pc = "areas"
    /\ \E w \in DOMAIN ways :
          /\ valid_way(ways[w])
          /\ ways[w].nodes[1] \notin located
          /\ ways[w].nodes[Len(ways[w].nodes)] \in DOMAIN nodes

(***************************************************************************)
(* Properties of the segments of a way                                     *)
(***************************************************************************)
\* The edges of the way w in the direction of the way.
ForwardEdges(w) ==
    LET wes == WayEdges(w)
    IN  IF TaggedOneway(ways[w]) THEN wes
        ELSE [k \in 1..(Len(wes) \div 2) |-> wes[2 * k - 1]]

\* The edge e goes from the i-th to the j-th point of the way.
Spans(e, way, i, j) ==
    /\ e.source = nodes[way.nodes[i]]
    /\ e.target = nodes[way.nodes[j]]
    /\ e.geometry = SelectSeq(SubSeq(way.nodes, i, j), LAMBDA p : p \in located)

\* C20: every edge of a valid way spans a range of consecutive points of the
\* way whose two ends are selected vertices and with no selected vertex
\* strictly inside, one edge for each such range that is not a self-loop,
\* in the order of the way, and an edge starts at the vertex where the edge
\* before it ends.
C20_Segments ==
    \A w \in DOMAIN ways :
        (Segmented(w) /\ valid_way(ways[w])) =>
            LET way == ways[w]
                fes == ForwardEdges(w)
            IN  /\ Len(fes) = Cardinality(EdgeSegments(way))
                /\ \A ij \in EdgeSegments(way) :
                      Spans(fes[Rank(way, ij)], way, ij[1], ij[2])
                /\ \A k \in 1..(Len(fes) - 1) : fes[k].target = fes[k + 1].source

\* The edges of a way of four points with a vertex inside it and a point
\* that is no vertex: two segments, one of them of three points.
C20_Witness ==
    /\ pc = "areas"
    /\ \E w \in DOMAIN ways :
          /\ valid_way(ways[w])
          /\ Cardinality(EdgeSegments(ways[w])) = 2
          /\ Len(ForwardEdges(w)) = 2
          /\ \E ij \in EdgeSegments(ways[w]) : ij[2] = ij[1] + 2

(***************************************************************************)
(* Properties of the attributes of the two directions                      *)
(***************************************************************************)
\* The edges of the way w against the direction of the way.
BackwardEdges(w) ==
    LET wes == WayEdges(w)
    IN  IF TaggedOneway(ways[w]) THEN <<>>
        ELSE [k \in 1..(Len(wes) \div 2) |-> wes[2 * k]]

\* The way w is valid, not one-way, and the second scan has handled it.
Bidirectional(w) ==
    Segmented(w) /\ valid_way(ways[w]) /\ ~TaggedOneway(ways[w])

\* C21: the backward edges of a bidirectional way whose tag
\* maxspeed:backward is absent or zero have the speed of the tag maxspeed,
\* or no speed when that tag gives none, also when the way has a tag
\* maxspeed:forward that is not zero.
C21_BackwardInherits ==
    \A w \in DOMAIN ways :
        (Bidirectional(w)
            /\ ways[w].tags["maxspeed:backward"] \in {Absent, "0"}) =>
                \A k \in DOMAIN BackwardEdges(w) :
                    BackwardEdges(w)[k].speed = UndirectedSpeed(ways[w].tags)

\* The value of a tag is present and is no integer.
MalformedInt(v) == v # Absent /\ ~ParseInt(v).ok

\* The number of lanes of the road type of the way.
DefaultLanes(tags) ==
    IF tags["highway"] \in DOMAIN DEFAULT_LANES
    THEN DEFAULT_LANES[tags["highway"]] ELSE 1

\* The number of lanes of a direction without a tag of its own: the half of
\* the tag lanes, then the default of the road type.
LanesWithoutDirection(tags) ==
    IF ParseInt(tags["lanes"]).ok
    THEN Max(ParseInt(tags["lanes"]).val \div 2, 1)
    ELSE DefaultLanes(tags)

\* C22: on a bidirectional way, a tag lanes:forward or lanes:backward that
\* is no integer gives the number of lanes of that tag being absent: the
\* half of the tag lanes when it is an integer, the default of the road type
\* otherwise.
C22_MalformedLanes ==
    \A w \in DOMAIN ways :
        Bidirectional(w) =>
            /\ MalformedInt(ways[w].tags["lanes:forward"]) =>
                  \A k \in DOMAIN ForwardEdges(w) :
                      ForwardEdges(w)[k].lanes
                          = LanesWithoutDirection(ways[w].tags)
            /\ MalformedInt(ways[w].tags["lanes:backward"]) =>
                  \A k \in DOMAIN BackwardEdges(w) :
                      BackwardEdges(w)[k].lanes
                          = LanesWithoutDirection(ways[w].tags)

\* The value of a tag is present and is no number.
MalformedFloat(v) == v # Absent /\ ~ParseFloat(v).ok

\* C23: on a bidirectional way, a tag maxspeed:forward or maxspeed:backward
\* that is no number gives the speeds of that tag being absent: the
\* direction of the tag has the speed of the tag maxspeed, and does not
\* lose its speed.
C23_MalformedSpeed ==
    \A w \in DOMAIN ways :
        Bidirectional(w) =>
            /\ MalformedFloat(ways[w].tags["maxspeed:forward"]) =>
                  \A k \in DOMAIN ForwardEdges(w) :
                      ForwardEdges(w)[k].speed = UndirectedSpeed(ways[w].tags)
            /\ MalformedFloat(ways[w].tags["maxspeed:backward"]) =>
                  \A k \in DOMAIN BackwardEdges(w) :
                      BackwardEdges(w)[k].speed = UndirectedSpeed(ways[w].tags)

\* C24: every edge created, forward or backward, has a number of lanes that
\* is an integer of 1 at least, whatever the tags lanes, lanes:forward and
\* lanes:backward hold, on a one-way way and on a bidirectional one.
C24_LanesPositive ==
    \A k \in DOMAIN edges : edges[k].lanes \in Nat /\ edges[k].lanes >= 1

\* The edges of a bidirectional way with lanes=0, lanes:forward=-1 and
\* lanes:backward=0.
C24_Witness ==
    /\ Bidirectional(1)
    /\ ways[1].tags["lanes"] = "0"
    /\ ways[1].tags["lanes:forward"] = "-1"
    /\ ways[1].tags["lanes:backward"] = "0"
    /\ Len(edges) = 2

\* C25: on a bidirectional way whose tags lanes:forward and lanes:backward
\* are absent or zero, with the integer n in the tag lanes, the forward and
\* the backward edges have max(n div 2, 1) lanes; on a one-way way with the
\* integer n in the tag lanes, the edges have max(n, 1) lanes whatever the
\* tags of the directions; without an integer to read, the edges have the
\* default of the road type.
C25_TotalLanes ==
    \A w \in DOMAIN ways :
        (Segmented(w) /\ valid_way(ways[w])) =>
            LET tags  == ways[w].tags
                total == ParseInt(tags["lanes"])
            IN  IF TaggedOneway(ways[w])
                THEN \A k \in DOMAIN WayEdges(w) :
                        WayEdges(w)[k].lanes =
                            IF total.ok THEN Max(total.val, 1)
                            ELSE DefaultLanes(tags)
                ELSE (/\ tags["lanes:forward"] \in {Absent, "0"}
                      /\ tags["lanes:backward"] \in {Absent, "0"}) =>
                        \A k \in DOMAIN WayEdges(w) :
                            WayEdges(w)[k].lanes =
                                IF total.ok THEN Max(total.val \div 2, 1)
                                ELSE DefaultLanes(tags)

\* The edges of a bidirectional motorway with lanes=4 and lanes:forward=0
\* have two lanes each.
C25_Witness ==
    /\ Bidirectional(1)
    /\ ways[1].tags["highway"] = "motorway"
    /\ ways[1].tags["lanes"] = "4"
    /\ ways[1].tags["lanes:forward"] = "0"
    /\ ways[1].tags["lanes:backward"] = Absent
    /\ Len(edges) = 2
    /\ edges[1].lanes = 2 /\ edges[2].lanes = 2

(***************************************************************************)
(* Properties of the largest strongly connected component                  *)
(***************************************************************************)
\* The vertices of the created edges that reach v and that v reaches.
ComponentOf(v) ==
    {u \in GraphNodes(pp.raw) :
        u \in ReachFrom(pp.raw, {v}) /\ v \in ReachFrom(pp.raw, {u})}

\* The labels of the rows of a table with the two ends in the set S.
LabelsWithin(df, S) ==
    {df[i].label : i \in {j \in DOMAIN df :
                            df[j].source \in S /\ df[j].target \in S}}

\* C26: the component selected is a strongly connected component of the
\* created edges with the largest number of vertices, and the edges kept are
\* the edges with their source and their target in it, all of them and no
\* other; vertices out of the component do not stop the processing.
C26_LargestComponent ==
    Final =>
        /\ pp.connected_nodes # {}
        /\ \A v \in pp.connected_nodes : ComponentOf(v) = pp.connected_nodes
        /\ \A v \in GraphNodes(pp.raw) :
              Cardinality(ComponentOf(v)) <= Cardinality(pp.connected_nodes)
        /\ Labels(pp.filtered) = LabelsWithin(pp.raw, pp.connected_nodes)
        /\ Len(pp.filtered) = Cardinality(Labels(pp.filtered))

\* The final table is computed after the filter dropped the edges of a
\* smaller component and kept the edges of a component of two vertices.
C26_Witness ==
    /\ Final
    /\ Cardinality(pp.connected_nodes) = 2
    /\ Cardinality(GraphNodes(pp.raw)) = 3
    /\ pp.filtered # <<>>
    /\ Len(pp.filtered) < Len(pp.raw)

(***************************************************************************)
(* Properties of the order of the scans                                    *)
(***************************************************************************)
\* The points of the geometry of an edge strictly between its two ends.
InnerPoints(e) == {e.geometry[i] : i \in 2..(Len(e.geometry) - 1)}

\* The vertices exist when the edges are created, and the urban region when
\* the default speeds are set.
ScansInOrder ==
    /\ edges # <<>> => Selected
    /\ Selected =>
          \A w \in ValidWays : EndPoints(ways[w]) \cap located \subseteq DOMAIN nodes
    /\ \A k \in DOMAIN edges : InnerPoints(edges[k]) \cap DOMAIN nodes = {}
    /\ pp # NoTables =>
          urban_area = UNION {areas[i].region :
                                 i \in {j \in DOMAIN areas : is_urban_area(areas[j])}}

\* No vertex is selected once an edge is created, and the urban region does
\* not change once the tables are computed.
ScansDoNotOverlap ==
    /\ nodes' # nodes => edges = <<>> /\ edges' = <<>>
    /\ edges' # edges => nodes' = nodes /\ pc = "edges"
    /\ urban_area' # urban_area => pp = NoTables /\ pp' = NoTables
    /\ pp' # pp => urban_area' = urban_area /\ pc = "post"

\* C27: the selection of the vertices over all the ways is over before an
\* edge is created, so that the edges are cut at the vertices of the final
\* set: a point that a later way made a vertex cuts the earlier ways through
\* it; and the urban region is complete before the default speeds are set.
C27_ScanOrder == [](ScansInOrder) /\ [][ScansDoNotOverlap]_vars

\* The first way passes through a point that only the second way, of which
\* it is an end, makes a vertex, and the first way has an edge to that point.
C27_Witness ==
    /\ pc = "areas"
    /\ Len(ways) = 2 /\ valid_way(ways[1]) /\ valid_way(ways[2])
    /\ Len(ways[1].nodes) = 3
    /\ ways[1].nodes[2] \notin EndPoints(ways[1])
    /\ ways[1].nodes[2] \in EndPoints(ways[2])
    /\ \E k \in DOMAIN WayEdges(1) :
          WayEdges(1)[k].target = nodes[ways[1].nodes[2]]

(***************************************************************************)
(* Properties of the columns of the final table                            *)
(***************************************************************************)
\* The ids of the road types of the main graph, and of the road types that
\* are no origin and no destination.
MainRoadTypes ==
    {ROADTYPE_TO_ID[h] :
        h \in {"motorway", "trunk", "primary", "secondary", "tertiary",
               "motorway_link", "trunk_link", "primary_link",
               "secondary_link", "tertiary_link"}}
NoOdRoadTypes ==
    {ROADTYPE_TO_ID[h] :
        h \in {"motorway", "trunk", "motorway_link", "trunk_link"}}

\* C28: in the final table, main_graph is true for the edges of a road type
\* of the main graph and for no other edge, allow_od is false for the edges
\* of the road types motorway, trunk, motorway_link and trunk_link and for
\* no other edge; an edge with allow_od false has main_graph true.
C28_Flags ==
    Final =>
        \A i \in DOMAIN edges_df :
            /\ edges_df[i].main_graph = (edges_df[i].road_type \in MainRoadTypes)
            /\ edges_df[i].allow_od = (edges_df[i].road_type \notin NoOdRoadTypes)
            /\ ~edges_df[i].allow_od => edges_df[i].main_graph

\* The final table of a motorway: its edges are of the main graph and are no
\* origin and no destination.
C28_Witness ==
    /\ Final
    /\ edges_df # <<>>
    /\ \A i \in DOMAIN edges_df :
          /\ edges_df[i].road_type = ROADTYPE_TO_ID["motorway"]
          /\ edges_df[i].main_graph /\ ~edges_df[i].allow_od

\* The created edge that a row of a table comes from.
CreatedEdge(row) == edges[row.label + 1]

\* C29: post_process only removes edges and sets the speeds that are
\* missing: every row of the final table is a created edge, no edge twice,
\* with the source, target, lanes, length, capacity, road type and way id of
\* that edge, and with its speed when the tags gave one.
C29_OnlyRemoves ==
    Final =>
        /\ \A i \in DOMAIN edges_df :
              /\ edges_df[i].label + 1 \in DOMAIN edges
              /\ LET e == CreatedEdge(edges_df[i])
                 IN  /\ edges_df[i].source = e.source
                     /\ edges_df[i].target = e.target
                     /\ edges_df[i].lanes = e.lanes
                     /\ edges_df[i].length = e.length
                     /\ edges_df[i].capacity = e.capacity
                     /\ edges_df[i].road_type = e.road_type
                     /\ edges_df[i].osm_id = e.osm_id
                     /\ edges_df[i].geometry = e.geometry
                     /\ e.speed.some => edges_df[i].speed = e.speed
        /\ \A i, j \in DOMAIN edges_df :
              edges_df[i].label = edges_df[j].label => i = j

\* The final table lacks created edges, and holds an edge with the speed of
\* its tags and an edge with a default speed.
C29_Witness ==
    /\ Final
    /\ Len(edges_df) < Len(edges)
    /\ \E i, j \in DOMAIN edges_df :
          /\ CreatedEdge(edges_df[i]).speed.some
          /\ CreatedEdge(edges_df[i]).speed.val
                 # DEFAULT_SPEED_RURAL[HighwayOf(edges_df[i].road_type)]
          /\ ~CreatedEdge(edges_df[j]).speed.some

\* No two distinct vertices of the created edges reach each other.
NoCycle == \A v \in GraphNodes(pp.raw) : ComponentOf(v) = {v}

\* C30: when the created edges have more than one vertex and no directed
\* cycle, the filter removes every edge and the final table is empty; the
\* final table holds an edge only if two distinct vertices reach each other.
C30_NoCycleNoEdge ==
    Final =>
        /\ (Cardinality(GraphNodes(pp.raw)) > 1 /\ NoCycle) =>
              pp.filtered = <<>> /\ edges_df = <<>>
        /\ edges_df # <<>> =>
              \E u, v \in GraphNodes(pp.raw) :
                  /\ u # v
                  /\ v \in ReachFrom(pp.raw, {u})
                  /\ u \in ReachFrom(pp.raw, {v})

\* The final table of a chain of two one-way edges over three vertices is
\* empty.
C30_Witness ==
    /\ Final
    /\ Len(edges) = 2
    /\ Cardinality(GraphNodes(pp.raw)) = 3
    /\ NoCycle
    /\ edges_df = <<>>

====
